---- MODULE Spec2Model ----
(***************************************************************************)
(* Model of github-stats-rs, src/search.rs: the Search configuration, its  *)
(* pagination methods, its URL rendering (impl fmt::Display) and search(). *)
(* The Query builder lives in the submodule `query` (src/search.rs:9-11);  *)
(* it is modelled by its documented behaviour: fragments appended in call  *)
(* order, rendered joined by one space.                                    *)
(*                                                                         *)
(* Strings are TLC strings, Option<T> is a sequence of length 0 (None) or  *)
(* 1 (Some), and usize is the naturals below 2^UsizeBits.                  *)
(***************************************************************************)
EXTENDS Integers, Sequences, FiniteSets, TLC

VARIABLES
    theQuery,   \* the caller's Query: its fragments, in call order
    theSearch,  \* the Search value: search_area, query, per_page, page
    ret,        \* what the most recent call returned: [op, kind, val]
    sent,       \* the URLs the most recent call requested, in order
    net,        \* what the transport did during the most recent call
    calls,      \* search() invocations on theSearch since it was built
    requests    \* outbound GET requests issued by those invocations

vars == <<theQuery, theSearch, ret, sent, net, calls, requests>>

---------------------------------------------------------------------------
(* Bounds of the model *)

\* usize is modelled UsizeBits wide (the build has 32 or 64).
UsizeBits == 4
\* Longest Query built fragment by fragment.
MaxFrags == 3
\* search() invocations followed on one Search.
MaxCalls == 2

UsizeModulus == 2 ^ UsizeBits
\* std::usize::MAX
UsizeMax == UsizeModulus - 1
\* std::usize::MIN
UsizeMin == 0

\* Arguments handed to per_page(n) and page(n).
SetterArgs == {0, 1, 2, UsizeMax - 1, UsizeMax}
\* Arguments handed to Search::new as area.
Areas == {"issues", ""}

---------------------------------------------------------------------------
(* Option<T> *)

None == <<>>
Some(x) == <<x>>
IsSome(o) == Len(o) = 1
IsNone(o) == Len(o) = 0
Unwrap(o) == o[1]

---------------------------------------------------------------------------
(* Query (submodule query) *)

\* Query::new()
Query_new == <<>>

\* One qualifier call: the fragment is appended after those already there.
qualifier(q, fragment) == Append(q, fragment)

\* .repo(owner, name)
repo(q, owner, name) == qualifier(q, "repo:" \o owner \o "/" \o name)

\* .is(what)
is(q, what) == qualifier(q, "is:" \o what)

\* query.to_string() joining the fragments with nothing between them.
RECURSIVE Query_to_string_unspaced(_)
Query_to_string_unspaced(q) ==
    IF Len(q) = 0 THEN "" ELSE q[1] \o Query_to_string_unspaced(Tail(q))

\* query.to_string(): the fragments joined by one space.
RECURSIVE Query_to_string(_)
Query_to_string(q) ==
    IF Len(q) = 0 THEN ""
    ELSE IF Len(q) = 1 THEN q[1]
    ELSE q[1] \o " " \o Query_to_string(Tail(q))

---------------------------------------------------------------------------
(* Search *)

\* impl Default for Search
default == [search_area |-> None, query |-> None, per_page |-> 10, page |-> 1]

\* Search::new storing the area where the rendered query belongs.
new_area_as_query(area, query) ==
    [default EXCEPT !.search_area = Some(area), !.query = Some(area)]

\* Search::new(area, &query)
new(area, query) ==
    [default EXCEPT !.search_area = Some(area),
                    !.query = Some(Query_to_string(query))]

\* per_page(n) that also goes back to the first page.
per_page_first_page(self, n) == [self EXCEPT !.per_page = n, !.page = 1]

\* Search::per_page(self, n)
per_page(self, n) == [self EXCEPT !.per_page = n]

\* Search::page(self, n)
page(self, n) == [self EXCEPT !.page = n]

\* next_page() with the check against std::usize::MAX left out: the
\* addition wraps.
next_page_wrapping(self) ==
    [self EXCEPT !.page = (self.page + 1) % UsizeModulus]

\* Search::next_page(&mut self)
next_page(self) ==
    IF self.page < UsizeMax
    THEN [self EXCEPT !.page = (self.page + 1) % UsizeModulus]
    ELSE self

\* Search::prev_page(&mut self)
prev_page(self) ==
    IF self.page > UsizeMin
    THEN [self EXCEPT !.page = (self.page + UsizeModulus - 1) % UsizeModulus]
    ELSE self

\* One decimal digit, as fmt::Display for usize writes it.
Digit(d) == <<"0", "1", "2", "3", "4", "5", "6", "7", "8", "9">>[d + 1]

\* fmt::Display for usize: the decimal digits, most significant first.
RECURSIVE Decimal(_)
Decimal(n) == IF n < 10 THEN Digit(n) ELSE Decimal(n \div 10) \o Digit(n % 10)

\* The rendering with per_page and page handed to write! in the other order.
to_string_swapped(self) ==
    LET search_area == IF IsSome(self.search_area) THEN Unwrap(self.search_area) ELSE ""
        query == IF IsSome(self.query) THEN Unwrap(self.query) ELSE ""
    IN  "https://api.github.com/search/" \o search_area
            \o "?per_page=" \o Decimal(self.page)
            \o "&page=" \o Decimal(self.per_page)
            \o "&q=" \o query

\* impl fmt::Display for Search (self.to_string())
to_string(self) ==
    LET search_area == IF IsSome(self.search_area) THEN Unwrap(self.search_area) ELSE ""
        query == IF IsSome(self.query) THEN Unwrap(self.query) ELSE ""
    IN  "https://api.github.com/search/" \o search_area
            \o "?per_page=" \o Decimal(self.per_page)
            \o "&page=" \o Decimal(self.page)
            \o "&q=" \o query

\* The message of the SearchError search() builds.
SearchErrorMessage == "Please provide search area and query by using Search::new()"

\* The return value of a call, uniformly shaped.
Ret(op, kind, val) == [op |-> op, kind |-> kind, val |-> val]

\* The else branch of search(): the local configuration error, no request.
config_error ==
    [ret  |-> Ret("search", "SearchError", SearchErrorMessage),
     sent |-> <<>>]

\* The request with a failed GET tried a second time.
request_retry(self, getOk, bodyOk) ==
    LET url == to_string(self) IN
    IF ~getOk
    THEN [ret |-> Ret("search", "TransportError", url), sent |-> <<url, url>>]
    ELSE IF ~bodyOk
    THEN [ret |-> Ret("search", "DeserializeError", url), sent |-> <<url>>]
    ELSE [ret |-> Ret("search", "SearchResults", url), sent |-> <<url>>]

\* The request with a body that does not deserialize answered by an empty
\* SearchResults.
request_fallback(self, getOk, bodyOk) ==
    LET url == to_string(self) IN
    IF ~getOk
    THEN [ret |-> Ret("search", "TransportError", url), sent |-> <<url>>]
    ELSE [ret |-> Ret("search", "SearchResults", url), sent |-> <<url>>]

\* reqwest::get(&self.to_string())?.json()? : one GET of the rendered URL.
\* getOk: reqwest::get returns Ok; bodyOk: the body deserializes as
\* SearchResults {total_count, items}. Each failure is returned by `?` as
\* the error it is. val names the URL the outcome belongs to.
request(self, getOk, bodyOk) ==
    LET url == to_string(self) IN
    IF ~getOk
    THEN [ret |-> Ret("search", "TransportError", url), sent |-> <<url>>]
    ELSE IF ~bodyOk
    THEN [ret |-> Ret("search", "DeserializeError", url), sent |-> <<url>>]
    ELSE [ret |-> Ret("search", "SearchResults", url), sent |-> <<url>>]

\* search() matching on search_area alone.
search_area_only(self, getOk, bodyOk) ==
    IF IsSome(self.search_area)
    THEN request(self, getOk, bodyOk)
    ELSE config_error

\* search() taking an empty string for an absent one.
search_nonempty(self, getOk, bodyOk) ==
    IF /\ IsSome(self.search_area) /\ IsSome(self.query)
       /\ Unwrap(self.search_area) # "" /\ Unwrap(self.query) # ""
    THEN request(self, getOk, bodyOk)
    ELSE config_error

\* Search::search(&self): the Result returned and the URLs requested.
search(self, getOk, bodyOk) ==
    IF IsSome(self.search_area) /\ IsSome(self.query)
    THEN request(self, getOk, bodyOk)
    ELSE config_error

\* What the transport did during a call that never reached it.
NoNet == [get |-> "none", body |-> "none"]

\* What the transport did to the GET of a call that reached it; the body
\* is read only of a GET that succeeded.
Transport(getOk, bodyOk) ==
    [get  |-> IF getOk THEN "ok" ELSE "fail",
     body |-> IF ~getOk THEN "none" ELSE IF bodyOk THEN "match" ELSE "mismatch"]

---------------------------------------------------------------------------
(* The callers' steps *)

\* A call that touches neither the network nor the counters.
Local == /\ sent' = <<>>
         /\ net' = NoNet
         /\ UNCHANGED <<calls, requests>>

PerPage(n) ==
    /\ theSearch' = per_page(theSearch, n)
    /\ ret' = Ret("per_page", "Self", "")
    /\ Local
    /\ UNCHANGED theQuery

Page(n) ==
    /\ theSearch' = page(theSearch, n)
    /\ ret' = Ret("page", "Self", "")
    /\ Local
    /\ UNCHANGED theQuery

NextPage ==
    /\ theSearch' = next_page(theSearch)
    /\ ret' = Ret("next_page", "unit", "")
    /\ Local
    /\ UNCHANGED theQuery

PrevPage ==
    /\ theSearch' = prev_page(theSearch)
    /\ ret' = Ret("prev_page", "unit", "")
    /\ Local
    /\ UNCHANGED theQuery

Display ==
    /\ ret' = Ret("to_string", "String", to_string(theSearch))
    /\ Local
    /\ UNCHANGED <<theQuery, theSearch>>

DoSearch(getOk, bodyOk) ==
    /\ calls < MaxCalls
    /\ LET r == search(theSearch, getOk, bodyOk) IN
        /\ ret' = r.ret
        /\ sent' = r.sent
        /\ net' = IF r.sent = <<>> THEN NoNet ELSE Transport(getOk, bodyOk)
        /\ requests' = requests + Len(r.sent)
    /\ calls' = calls + 1
    /\ UNCHANGED <<theQuery, theSearch>>

Repo(owner, name) ==
    /\ Len(theQuery) < MaxFrags
    /\ theQuery' = repo(theQuery, owner, name)
    /\ ret' = Ret("repo", "Self", "")
    /\ Local
    /\ UNCHANGED theSearch

Is(what) ==
    /\ Len(theQuery) < MaxFrags
    /\ theQuery' = is(theQuery, what)
    /\ ret' = Ret("is", "Self", "")
    /\ Local
    /\ UNCHANGED theSearch

Render ==
    /\ ret' = Ret("query.to_string", "String", Query_to_string(theQuery))
    /\ Local
    /\ UNCHANGED <<theQuery, theSearch>>

New(area) ==
    /\ theSearch' = new(area, theQuery)
    /\ ret' = Ret("new", "Self", "")
    /\ sent' = <<>>
    /\ net' = NoNet
    /\ calls' = 0
    /\ requests' = 0
    /\ UNCHANGED theQuery

---------------------------------------------------------------------------
(* Specification of one Search being configured and run *)

\* The Query of the crate's example, a one-fragment Query and the empty one.
ExampleQuery == is(is(repo(Query_new, "rust-lang", "rust"), "pr"), "merged")
SampleQueries == {Query_new, is(Query_new, "pr"), ExampleQuery}

Quiet ==
    /\ ret = Ret("", "none", "")
    /\ sent = <<>>
    /\ net = NoNet
    /\ calls = 0
    /\ requests = 0

Init ==
    /\ theQuery \in SampleQueries
    /\ theSearch \in {default} \cup {new(area, theQuery) : area \in Areas}
    /\ Quiet

Next ==
    \/ \E n \in SetterArgs : PerPage(n)
    \/ \E n \in SetterArgs : Page(n)
    \/ NextPage
    \/ PrevPage
    \/ Display
    \/ \E getOk \in BOOLEAN, bodyOk \in BOOLEAN : DoSearch(getOk, bodyOk)

Spec == Init /\ [][Next]_vars

(* Specification of a Query being built, rendered and handed to Search::new *)

InitQ ==
    /\ theQuery = Query_new
    /\ theSearch = default
    /\ Quiet

NextQ ==
    \/ Repo("rust-lang", "rust")
    \/ \E what \in {"pr", "merged"} : Is(what)
    \/ Render
    \/ \E area \in Areas : New(area)
    \/ Display
    \/ \E getOk \in BOOLEAN, bodyOk \in BOOLEAN : DoSearch(getOk, bodyOk)

SpecQ == InitQ /\ [][NextQ]_vars

---------------------------------------------------------------------------
(* Properties *)

Present(self) == IsSome(self.search_area) /\ IsSome(self.query)

\* Decimal numerals written out, for naming the expected text of a URL.
DecimalText(n) ==
    <<
        "0", "1", "2", "3", "4", "5", "6", "7", "8", "9", "10", "11",
        "12", "13", "14", "15", "16", "17", "18", "19", "20", "21",
        "22", "23", "24", "25", "26", "27", "28", "29", "30", "31",
        "32", "33", "34", "35", "36", "37", "38", "39", "40", "41",
        "42", "43", "44", "45", "46", "47", "48", "49", "50", "51",
        "52", "53", "54", "55", "56", "57", "58", "59", "60", "61",
        "62", "63"
    >>[n + 1]

\* The URL the documentation gives for area, query, per_page and page.
ExpectedUrl(area, query, pp, p) ==
    "https://api.github.com/search/" \o area \o "?per_page=" \o DecimalText(pp)
        \o "&page=" \o DecimalText(p) \o "&q=" \o query

\* Every Search value over the arguments of the model, whatever built it.
AnySearch ==
    [search_area : {None} \cup {Some(a) : a \in Areas},
     query       : {None} \cup {Some(Query_to_string(q)) : q \in SampleQueries},
     per_page    : SetterArgs,
     page        : SetterArgs]

\* C1: search() on a Search whose search_area or query is None returns the
\* SearchError with the fixed message and requests nothing, whatever
\* per_page and page are and however often it is called: the requests
\* counted for such a Search stay 0.
C1_AbsentIsConfigError ==
    /\ ~Present(theSearch) => requests = 0
    /\ (ret.op = "search" /\ ~Present(theSearch)) =>
            /\ ret = Ret("search", "SearchError", SearchErrorMessage)
            /\ sent = <<>>
    /\ \A self \in AnySearch, getOk \in BOOLEAN, bodyOk \in BOOLEAN :
            ~Present(self) =>
                /\ search(self, getOk, bodyOk).ret
                        = Ret("search", "SearchError", SearchErrorMessage)
                /\ search(self, getOk, bodyOk).sent = <<>>

\* search() was called twice on Search::default() after per_page(0) and
\* page(usize::MAX).
C1_Witness ==
    /\ ret.op = "search"
    /\ theSearch = [default EXCEPT !.per_page = 0, !.page = UsizeMax]
    /\ calls = MaxCalls

\* C2: the URL a Search with area and query renders, and the one search()
\* requests, is "https://api.github.com/search/" + area + "?per_page=" +
\* decimal(per_page) + "&page=" + decimal(page) + "&q=" + query, with the
\* per_page and page of the moment; the documented example renders as
\* documented.
C2_UrlFormat ==
    LET expected == ExpectedUrl(Unwrap(theSearch.search_area), Unwrap(theSearch.query),
                                theSearch.per_page, theSearch.page)
    IN  /\ (ret.op = "to_string" /\ Present(theSearch)) => ret.val = expected
        /\ (ret.op = "search" /\ Present(theSearch)) => sent = <<expected>>
        /\ ( /\ ret.op = "to_string"
             /\ theSearch = [search_area |-> Some("issues"),
                             query |-> Some("repo:rust-lang/rust is:pr is:merged"),
                             per_page |-> 10, page |-> 1] ) =>
                ret.val = "https://api.github.com/search/issues?per_page=10&page=1&q=repo:rust-lang/rust is:pr is:merged"

\* The second search() on Search::new("issues", &query) of the documented
\* example requested the documented URL.
C2_Witness ==
    /\ ret.op = "search"
    /\ calls = MaxCalls
    /\ theSearch.per_page = 10
    /\ sent = <<"https://api.github.com/search/issues?per_page=10&page=1&q=repo:rust-lang/rust is:pr is:merged">>

\* C3: prev_page() called with page = 1 leaves page at 1.
C3_PrevPageFloorOne ==
    [][(PrevPage /\ theSearch.page = 1) => theSearch'.page = 1]_vars

\* C4: next_page() saturates: below usize::MAX page becomes page + 1, at
\* usize::MAX it stays, and it never becomes smaller.
C4_NextPageSaturates ==
    [][NextPage =>
        /\ theSearch.page < UsizeMax => theSearch'.page = theSearch.page + 1
        /\ theSearch.page = UsizeMax => theSearch'.page = UsizeMax
        /\ theSearch'.page >= theSearch.page]_vars

\* next_page() returned with page at usize::MAX.
C4_Witness ==
    /\ ret.op = "next_page"
    /\ theSearch.page = UsizeMax

\* C5 as stated: search() on a Search built by Search::new with an empty
\* area string, or from a Query that renders to the empty string, fails with
\* the configuration error and requests nothing.
C5_EmptyIsConfigError ==
    ( /\ ret.op = "search"
      /\ Present(theSearch)
      /\ (theSearch.search_area = Some("") \/ theSearch.query = Some("")) ) =>
        /\ ret.kind = "SearchError"
        /\ sent = <<>>

\* C5 as amended: search() fails with the configuration error exactly when
\* search_area or query is None; built by Search::new with an empty area
\* string or an empty rendered query it issues one GET of the URL with the
\* empty text embedded, and returns that request's outcome.
C5_EmptyIsExecuted ==
    /\ ret.op = "search" => (ret.kind = "SearchError" <=> ~Present(theSearch))
    /\ ( /\ ret.op = "search"
         /\ Present(theSearch)
         /\ (theSearch.search_area = Some("") \/ theSearch.query = Some("")) ) =>
            /\ ret.kind \in {"SearchResults", "TransportError", "DeserializeError"}
            /\ sent = <<ExpectedUrl(Unwrap(theSearch.search_area),
                                    Unwrap(theSearch.query),
                                    theSearch.per_page, theSearch.page)>>

\* search() on Search::new("", &Query::new()) requested the URL with both
\* texts empty and returned the results.
C5_Witness ==
    /\ ret = Ret("search", "SearchResults",
                 "https://api.github.com/search/?per_page=10&page=1&q=")
    /\ theSearch.search_area = Some("")
    /\ theSearch.query = Some("")
    /\ sent = <<"https://api.github.com/search/?per_page=10&page=1&q=">>

\* C6: each search() on a Search with area and query issues exactly one GET
\* whatever its outcome, so after k invocations k requests were issued.
C6_OneRequestPerCall ==
    Present(theSearch) =>
        /\ requests = calls
        /\ ret.op = "search" => Len(sent) = 1

\* MaxCalls invocations, the last one after a failed GET, issued MaxCalls
\* requests.
C6_Witness ==
    /\ Present(theSearch)
    /\ ret.op = "search"
    /\ net.get = "fail"
    /\ calls = MaxCalls
    /\ requests = MaxCalls

\* C7: search() returns one of four outcomes: the SearchError exactly when
\* area or query is None, the transport error exactly when they are there
\* and the GET fails, the deserialization error exactly when the GET
\* succeeds and the body does not match, the SearchResults otherwise.
C7_OutcomeKinds ==
    ret.op = "search" =>
        /\ ret.kind \in {"SearchError", "TransportError", "DeserializeError",
                         "SearchResults"}
        /\ ret.kind = "SearchError" <=> ~Present(theSearch)
        /\ ret.kind = "TransportError" <=> (Present(theSearch) /\ net.get = "fail")
        /\ ret.kind = "DeserializeError" <=> (net.get = "ok" /\ net.body = "mismatch")
        /\ ret.kind = "SearchResults" <=> (net.get = "ok" /\ net.body = "match")
        /\ ~Present(theSearch) => net = NoNet

\* A GET that succeeded with a body of another shape was returned as the
\* deserialization error.
C7_Witness ==
    /\ ret.op = "search"
    /\ ret.kind = "DeserializeError"
    /\ net = [get |-> "ok", body |-> "mismatch"]

\* The fragments joined by one space, taken from the last one backwards.
RECURSIVE Joined(_)
Joined(q) ==
    IF Len(q) = 0 THEN ""
    ELSE IF Len(q) = 1 THEN q[1]
    ELSE Joined(SubSeq(q, 1, Len(q) - 1)) \o " " \o q[Len(q)]

AnyQualifier == Repo("rust-lang", "rust") \/ \E what \in {"pr", "merged"} : Is(what)

\* C8: Search::new stores the rendering of the Query as it is then and
\* leaves the Query alone; qualifier calls on the Query afterwards change
\* neither the Search nor the URL it renders and requests, so the stored
\* query stays the rendering of the fragments the Query began with.
C8_QuerySnapshot ==
    [][ /\ (\E area \in Areas : New(area)) =>
            /\ theQuery' = theQuery
            /\ theSearch'.query = Some(Joined(theQuery))
        /\ AnyQualifier =>
            /\ theSearch' = theSearch
            /\ to_string(theSearch') = to_string(theSearch)
            /\ search(theSearch', TRUE, TRUE) = search(theSearch, TRUE, TRUE)
        /\ Present(theSearch') =>
            \E k \in 0..Len(theQuery') :
                theSearch'.query = Some(Joined(SubSeq(theQuery', 1, k)))
        /\ (ret'.op = "search" /\ Present(theSearch')) =>
            \E k \in 0..Len(theQuery') :
                sent' = <<ExpectedUrl(Unwrap(theSearch'.search_area),
                                      Joined(SubSeq(theQuery', 1, k)),
                                      theSearch'.per_page, theSearch'.page)>>
      ]_vars

\* search() on a Search built when the Query was "is:pr" requested q=is:pr
\* after the Query had grown to "is:pr is:merged".
C8_Witness ==
    /\ theQuery = <<"is:pr", "is:merged">>
    /\ theSearch.query = Some("is:pr")
    /\ ret.op = "search"
    /\ sent = <<"https://api.github.com/search/issues?per_page=10&page=1&q=is:pr">>

\* C9: every render of a Query is its fragments joined by one space in call
\* order (q1 + " " + q2 + " " + q3 for three of them), a render repeated
\* with no qualifier call between gives the same text, rendering leaves
\* the fragments as they are, and a qualifier call appends one fragment.
C9_RenderJoins ==
    [][ /\ ret'.op = "query.to_string" =>
            /\ ret'.val = Joined(theQuery')
            /\ Len(theQuery') = 3 =>
                ret'.val = theQuery'[1] \o " " \o theQuery'[2] \o " " \o theQuery'[3]
        /\ Render => theQuery' = theQuery
        /\ (Render /\ ret.op = "query.to_string") => ret' = ret
        /\ AnyQualifier =>
            /\ Len(theQuery') = Len(theQuery) + 1
            /\ SubSeq(theQuery', 1, Len(theQuery)) = theQuery
      ]_vars

\* The Query of the documented example was rendered.
C9_Witness ==
    /\ theQuery = <<"repo:rust-lang/rust", "is:pr", "is:merged">>
    /\ ret = Ret("query.to_string", "String", "repo:rust-lang/rust is:pr is:merged")

\* C10: search() leaves all four fields as they are on every outcome;
\* next_page() and prev_page() leave search_area, query and per_page;
\* per_page(n) sets per_page to n and page(n) sets page to n, whatever n,
\* and nothing else; no call changes whether search_area and query are
\* Some or None.
C10_Frame ==
    [][ /\ (\E getOk \in BOOLEAN, bodyOk \in BOOLEAN : DoSearch(getOk, bodyOk)) =>
            theSearch' = theSearch
        /\ (NextPage \/ PrevPage) =>
            theSearch' = [theSearch EXCEPT !.page = theSearch'.page]
        /\ \A n \in SetterArgs :
            /\ PerPage(n) => theSearch' = [theSearch EXCEPT !.per_page = n]
            /\ Page(n) => theSearch' = [theSearch EXCEPT !.page = n]
        /\ IsSome(theSearch'.search_area) = IsSome(theSearch.search_area)
        /\ IsSome(theSearch'.query) = IsSome(theSearch.query)
      ]_vars

\* per_page(0) returned on a Search whose page had been moved to
\* usize::MAX and which had been run.
C10_Witness ==
    /\ ret.op = "per_page"
    /\ theSearch.per_page = 0
    /\ theSearch.page = UsizeMax
    /\ Present(theSearch)
    /\ calls = MaxCalls

====
